---- MODULE Spec2Model ----
(***************************************************************************)
(* Model of chan::util (src/src/util/mod.rs): distance, compare and        *)
(* order_points.                                                           *)
(*                                                                         *)
(* Numbers.  A coordinate is an f64 in the source.  Here a coordinate is   *)
(* an integer n standing for the value n / Scale, so every coordinate of   *)
(* the model is a small dyadic rational and every subtraction, product and *)
(* sum the code performs on it is exact in f64: the integer arithmetic     *)
(* below is the arithmetic of the code on these inputs.  A difference of   *)
(* coordinates is in units of 1/Scale, a product of two differences in     *)
(* units of 1/Scale^2.  EPSILON is given in units of 1/Scale; where the    *)
(* code compares a product with EPSILON the model compares with            *)
(* EPSILON * Scale (EpsilonSq).                                            *)
(*                                                                         *)
(* Indices are 0-based as in the source; At(s, i) reads s[i].              *)
(***************************************************************************)
EXTENDS Integers, Sequences, FiniteSets

VARIABLES
    input,       \* the vector as the caller passed it (history, never written)
    points,      \* order_points: the vector `points`
    lowest,      \* order_points: local `lowest`
    lowest_idx,  \* order_points: local `lowest_idx`
    idx,         \* order_points: loop variable `idx` of the scan
    cmps,        \* the results compare returned to the sort (history)
    pc,          \* position in the function being run
    args,        \* compare / distance: the arguments of the call
    ret,         \* compare / distance: the value returned
    retSwap,     \* compare / distance: the value returned with a, b exchanged
    retSelf      \* distance: the value returned for (p1, p1)

vars == <<input, points, lowest, lowest_idx, idx, cmps, pc, args, ret, retSwap, retSelf>>

(***************************************************************************)
(* Bounds and units                                                        *)
(***************************************************************************)
\* longest input vector of order_points
MaxLen == 4
\* coordinate n stands for n / Scale
Scale == 8
\* the tolerance ::EPSILON, in units of 1/Scale
EPSILON == 3
\* EPSILON in units of 1/Scale^2, for comparison with a product
EpsilonSq == EPSILON * Scale

\* x and y coordinates the inputs of order_points are drawn from: x on the
\* unit grid, y in steps below and above EPSILON
XVals == {0, Scale, 2 * Scale}
YVals == {0, 2, 4}
\* coordinates the arguments of compare and distance are drawn from
CmpVals == {0 - Scale, -1, 0, 1, Scale}

None == "None"
NoPoint == [x |-> 0, y |-> 0]

\* ::Point
Point(px, py) == [x |-> px, y |-> py]

Points == {Point(px, py) : px \in XVals, py \in YVals}
CmpPoints == {Point(px, py) : px \in CmpVals, py \in CmpVals}

RECURSIVE SeqsUpTo(_, _)
SeqsUpTo(S, n) ==
    IF n = 0 THEN {<<>>}
    ELSE LET shorter == SeqsUpTo(S, n - 1)
         IN  shorter \cup {Append(s, e) : s \in {t \in shorter : Len(t) = n - 1}, e \in S}

At(s, i) == s[i + 1]

\* f64::abs
abs(n) == IF n < 0 THEN 0 - n ELSE n

\* f64::powi
RECURSIVE powi(_, _)
powi(b, n) == IF n = 0 THEN 1 ELSE b * powi(b, n - 1)

(***************************************************************************)
(* distance                                                                *)
(***************************************************************************)
\* faulty variant: the y terms added instead of subtracted
distance_y_added(p1, p2) == powi(p1.x - p2.x, 2) + powi(p1.y + p2.y, 2)

distance(p1, p2) == powi(p1.x - p2.x, 2) + powi(p1.y - p2.y, 2)

(***************************************************************************)
(* compare                                                                 *)
(***************************************************************************)
\* faulty variant: the two products added instead of subtracted
cross_prod_added(a, b, base) ==
    LET vec_a_base == <<base.x - a.x, base.y - a.y>>
        vec_a_b    == <<b.x - a.x, b.y - a.y>>
    IN  (vec_a_base[1] * vec_a_b[2]) + (vec_a_base[2] * vec_a_b[1])

cross_prod(a, b, base) ==
    LET vec_a_base == <<base.x - a.x, base.y - a.y>>
        vec_a_b    == <<b.x - a.x, b.y - a.y>>
    IN  (vec_a_base[1] * vec_a_b[2]) - (vec_a_base[2] * vec_a_b[1])

\* faulty variant: the second test against EPSILON instead of -EPSILON
compare_unsigned_epsilon(a, b, base) ==
    IF cross_prod(a, b, base) > EpsilonSq THEN "Greater"
    ELSE IF cross_prod(a, b, base) < EpsilonSq THEN "Less"
    ELSE "Equal"

compare(a, b, base) ==
    IF cross_prod(a, b, base) > EpsilonSq THEN "Greater"
    ELSE IF cross_prod(a, b, base) < 0 - EpsilonSq THEN "Less"
    ELSE "Equal"

(***************************************************************************)
(* order_points                                                            *)
(***************************************************************************)
\* faulty variant: the last element is dropped, whatever the index
swap_remove_drops_last(v, i) == SubSeq(v, 1, Len(v) - 1)

\* Vec::swap_remove: the last element takes the place of the removed one
swap_remove(v, i) ==
    LET n == Len(v)
    IN  IF i = n - 1 THEN SubSeq(v, 1, n - 1)
        ELSE [k \in 1..(n - 1) |-> IF k = i + 1 THEN v[n] ELSE v[k]]

\* Vec::insert(0, e)
insert_front(v, e) == <<e>> \o v

\* slice::sort_unstable_by on at most 20 elements is an insertion sort: each
\* element in turn is moved left while the comparator says it is Less than its
\* left neighbour.  st = [v, cmps]: the slice and the comparator results so far.
RECURSIVE insert_tail(_, _, _, _)
insert_tail(st, j, tmp, base) ==
    IF j = 1 THEN [v |-> [st.v EXCEPT ![1] = tmp], cmps |-> st.cmps]
    ELSE LET r == compare(tmp, st.v[j - 1], base)
             c == st.cmps \cup {r}
         IN  IF r = "Less"
             THEN insert_tail([v |-> [st.v EXCEPT ![j] = st.v[j - 1]], cmps |-> c],
                              j - 1, tmp, base)
             ELSE [v |-> [st.v EXCEPT ![j] = tmp], cmps |-> c]

RECURSIVE insertion_sort(_, _, _)
insertion_sort(st, i, base) ==
    IF i > Len(st.v) THEN st
    ELSE insertion_sort(insert_tail(st, i, st.v[i], base), i + 1, base)

sort_unstable_by(v, base) == insertion_sort([v |-> v, cmps |-> {}], 2, base)

\* faulty variant: the index recorded is one past the element's
scan_body_index_off_by_one(point, i, low, low_idx) ==
    IF abs(point.y - low.y) < EPSILON
    THEN IF point.x < low.x THEN <<point, i + 1>> ELSE <<low, low_idx>>
    ELSE IF point.y < low.y THEN <<point, i + 1>> ELSE <<low, low_idx>>

\* faulty variant: the tie-break on x is not strict
scan_body_x_not_strict(point, i, low, low_idx) ==
    IF abs(point.y - low.y) < EPSILON
    THEN IF point.x <= low.x THEN <<point, i>> ELSE <<low, low_idx>>
    ELSE IF point.y < low.y THEN <<point, i>> ELSE <<low, low_idx>>

\* the body of the scan loop for the element `point` at index `i`:
\* the new <<lowest, lowest_idx>>
scan_body(point, i, low, low_idx) ==
    IF abs(point.y - low.y) < EPSILON
    THEN IF point.x < low.x THEN <<point, i>> ELSE <<low, low_idx>>
    ELSE IF point.y < low.y THEN <<point, i>> ELSE <<low, low_idx>>

InitOrder ==
    /\ input \in SeqsUpTo(Points, MaxLen)
    /\ points = input
    /\ lowest = NoPoint
    /\ lowest_idx = 0
    /\ idx = 0
    /\ cmps = {}
    /\ pc = "start"
    /\ args = <<>>
    /\ ret = None
    /\ retSwap = None
    /\ retSelf = None

\* let mut lowest = points[0].clone(); let mut lowest_idx = 0;
\* indexing an empty vector panics
Start ==
    /\ pc = "start"
    /\ IF Len(points) = 0
       THEN /\ pc' = "panic"
            /\ UNCHANGED <<lowest, lowest_idx, idx>>
       ELSE /\ lowest' = At(points, 0)
            /\ lowest_idx' = 0
            /\ idx' = 0
            /\ pc' = "scan"
    /\ UNCHANGED <<input, points, cmps, args, ret, retSwap, retSelf>>

\* one iteration of `for (idx, point) in points.iter().enumerate()`
Scan ==
    /\ pc = "scan"
    /\ LET new == scan_body(At(points, idx), idx, lowest, lowest_idx)
       IN  /\ lowest' = new[1]
           /\ lowest_idx' = new[2]
    /\ IF idx + 1 < Len(points)
       THEN /\ idx' = idx + 1
            /\ pc' = "scan"
       ELSE /\ idx' = idx
            /\ pc' = "remove"
    /\ UNCHANGED <<input, points, cmps, args, ret, retSwap, retSelf>>

\* points.swap_remove(lowest_idx); an index past the end panics
Remove ==
    /\ pc = "remove"
    /\ IF lowest_idx >= Len(points)
       THEN /\ pc' = "panic"
            /\ UNCHANGED points
       ELSE /\ points' = swap_remove(points, lowest_idx)
            /\ pc' = "sort"
    /\ UNCHANGED <<input, lowest, lowest_idx, idx, cmps, args, ret, retSwap, retSelf>>

\* points.sort_unstable_by(|a, b| compare(a, b, &lowest));
Sort ==
    /\ pc = "sort"
    /\ LET sorted == sort_unstable_by(points, lowest)
       IN  /\ points' = sorted.v
           /\ cmps' = sorted.cmps
    /\ pc' = "insert"
    /\ UNCHANGED <<input, lowest, lowest_idx, idx, args, ret, retSwap, retSelf>>

\* points.insert(0, lowest);
Insert ==
    /\ pc = "insert"
    /\ points' = insert_front(points, lowest)
    /\ pc' = "done"
    /\ UNCHANGED <<input, lowest, lowest_idx, idx, cmps, args, ret, retSwap, retSelf>>

Next == Start \/ Scan \/ Remove \/ Sort \/ Insert

Spec == InitOrder /\ [][Next]_vars

(***************************************************************************)
(* Calls of compare: the arguments <<a, b, base>> are drawn from CmpPoints *)
(***************************************************************************)
InitCompare ==
    /\ args \in {<<a, b, base>> : a \in CmpPoints, b \in CmpPoints, base \in CmpPoints}
    /\ ret = None
    /\ retSwap = None
    /\ retSelf = None
    /\ pc = "compare"
    /\ input = <<>>
    /\ points = <<>>
    /\ lowest = NoPoint
    /\ lowest_idx = 0
    /\ idx = 0
    /\ cmps = {}

\* compare(a, b, base)
CallCompare ==
    /\ pc = "compare"
    /\ ret = None
    /\ ret' = compare(args[1], args[2], args[3])
    /\ pc' = IF retSwap = None THEN "compare" ELSE "returned"
    /\ UNCHANGED <<input, points, lowest, lowest_idx, idx, cmps, args, retSwap, retSelf>>

\* compare(b, a, base)
CallCompareSwapped ==
    /\ pc = "compare"
    /\ retSwap = None
    /\ retSwap' = compare(args[2], args[1], args[3])
    /\ pc' = IF ret = None THEN "compare" ELSE "returned"
    /\ UNCHANGED <<input, points, lowest, lowest_idx, idx, cmps, args, ret, retSelf>>

NextCompare == CallCompare \/ CallCompareSwapped

SpecCompare == InitCompare /\ [][NextCompare]_vars

(***************************************************************************)
(* Calls of distance: the arguments <<p1, p2>> are drawn from CmpPoints    *)
(***************************************************************************)
InitDistance ==
    /\ args \in {<<p1, p2>> : p1 \in CmpPoints, p2 \in CmpPoints}
    /\ ret = None
    /\ retSwap = None
    /\ retSelf = None
    /\ pc = "distance"
    /\ input = <<>>
    /\ points = <<>>
    /\ lowest = NoPoint
    /\ lowest_idx = 0
    /\ idx = 0
    /\ cmps = {}

\* distance(p1, p2), distance(p2, p1) and distance(p1, p1)
CallDistance ==
    /\ pc = "distance"
    /\ ret' = distance(args[1], args[2])
    /\ retSwap' = distance(args[2], args[1])
    /\ retSelf' = distance(args[1], args[1])
    /\ pc' = "returned"
    /\ UNCHANGED <<input, points, lowest, lowest_idx, idx, cmps, args>>

NextDistance == CallDistance

SpecDistance == InitDistance /\ [][NextDistance]_vars

(***************************************************************************)
(* All three functions: a run is one call of one of them                   *)
(***************************************************************************)
InitAll == InitOrder \/ InitCompare \/ InitDistance

NextAll == Next \/ NextCompare \/ NextDistance

SpecAll == InitAll /\ [][NextAll]_vars

(***************************************************************************)
(* Vocabulary of the properties                                            *)
(***************************************************************************)
Finished == pc = "done"
NonEmpty == Len(input) > 0
AfterScan == pc \in {"remove", "sort", "insert", "done"}

Count(s, p) == Cardinality({i \in DOMAIN s : s[i] = p})
SameMultiset(s, t) == \A p \in Points : Count(s, p) = Count(t, p)

MinY(s) == CHOOSE m \in {s[i].y : i \in DOMAIN s} : \A i \in DOMAIN s : m <= s[i].y

\* p comes before q in the order by y, then x
LexLess(p, q) == p.y < q.y \/ (p.y = q.y /\ p.x < q.x)
LexMin(s) == CHOOSE p \in {s[i] : i \in DOMAIN s} : \A i \in DOMAIN s : ~LexLess(s[i], p)
\* 0-based index of the first occurrence of p in s
FirstIndex(s, p) == (CHOOSE i \in DOMAIN s : s[i] = p /\ \A k \in 1..(i - 1) : s[k] # p) - 1

\* any two y-coordinates are equal or at least EPSILON apart
YSeparated(s) ==
    \A i, j \in DOMAIN s : s[i].y = s[j].y \/ abs(s[i].y - s[j].y) >= EPSILON

\* a, b and c lie on one line
Collinear(a, b, c) == (b.x - a.x) * (c.y - a.y) = (b.y - a.y) * (c.x - a.x)
AllCollinear(s) == \A i, j, k \in DOMAIN s : Collinear(s[i], s[j], s[k])

(***************************************************************************)
(* C1: after order_points on a non-empty input the first element has y     *)
(* less than or equal to the y of every element of the input, within       *)
(* EPSILON, and among the elements whose y is within EPSILON of the        *)
(* minimum y no other has a smaller x.  (Stated in its weakest reading:    *)
(* "within" allows a difference of exactly EPSILON, and a tie in x with    *)
(* another element is allowed.)                                            *)
(***************************************************************************)
C1_AnchorIsLowest ==
    (Finished /\ NonEmpty) =>
        /\ \A i \in DOMAIN input : points[1].y <= input[i].y + EPSILON
        /\ \A i \in DOMAIN input :
               abs(input[i].y - MinY(input)) <= EPSILON => points[1].x <= input[i].x

(***************************************************************************)
(* C2: after order_points on a non-empty input, for all 1 <= i < j < len   *)
(* compare(p[i], p[j], p[0]) is Less or Equal, never Greater.              *)
(***************************************************************************)
C2_AngularMonotone ==
    (Finished /\ NonEmpty) =>
        \A i, j \in 2..Len(points) :
            i < j => compare(points[i], points[j], points[1]) # "Greater"

(***************************************************************************)
(* C3: order_points on an empty vector reports an error without indexing   *)
(* the vector: it does not panic, and the vector stays empty.              *)
(***************************************************************************)
C3_EmptyInputNoPanic ==
    (Len(input) = 0 /\ pc \in {"start", "scan", "remove", "sort", "insert", "done", "panic"}) =>
        (pc # "panic" /\ points = <<>>)

(***************************************************************************)
(* C4: the vector left by order_points is a permutation of the input:      *)
(* same length, same multiset of points.                                   *)
(***************************************************************************)
C4_Permutation ==
    (Finished /\ NonEmpty) =>
        /\ Len(points) = Len(input)
        /\ SameMultiset(points, input)

C4_Witness ==
    /\ Finished
    /\ Len(input) = MaxLen
    /\ points # input
    /\ \E p \in Points : Count(input, p) >= 2
    /\ lowest_idx \notin {0, Len(input) - 1}

(***************************************************************************)
(* C9: during the scan lowest = points[lowest_idx] and                     *)
(* 0 <= lowest_idx <= idx < len(points); so swap_remove is in bounds, the  *)
(* first element of the result is an element of the input, and             *)
(* order_points on a non-empty input runs to its end without a panic:      *)
(* every step brings the end nearer.                                       *)
(***************************************************************************)
C9_Positions ==
    (NonEmpty /\ pc \in {"start", "scan", "remove", "sort", "insert", "done", "panic"}) =>
        /\ pc # "panic"
        /\ pc = "scan" =>
              /\ 0 <= lowest_idx /\ lowest_idx <= idx /\ idx < Len(points)
              /\ lowest = At(points, lowest_idx)
        /\ pc = "remove" =>
              /\ 0 <= lowest_idx /\ lowest_idx < Len(points)
              /\ lowest = At(points, lowest_idx)
        /\ pc = "done" => \E i \in DOMAIN input : points[1] = input[i]

\* the number of steps order_points has left at most
StepsLeft ==
    CASE pc = "start"  -> Len(points) + 4
      [] pc = "scan"   -> (Len(points) - idx) + 3
      [] pc = "remove" -> 3
      [] pc = "sort"   -> 2
      [] pc = "insert" -> 1
      [] OTHER         -> 0

C9_ScanInvariant ==
    /\ []C9_Positions
    /\ [][StepsLeft' < StepsLeft]_vars

C9_Witness ==
    /\ pc = "remove"
    /\ Len(input) = MaxLen
    /\ lowest_idx = Len(input) - 1

(***************************************************************************)
(* C10: when any two y-coordinates of the input are equal or at least      *)
(* EPSILON apart, the anchor is the minimum of the input by (y, then x),   *)
(* whatever the order of the input, and the occurrence removed is the      *)
(* first one.                                                              *)
(***************************************************************************)
C10_LexMinAnchor ==
    (NonEmpty /\ YSeparated(input) /\ AfterScan) =>
        /\ lowest = LexMin(input)
        /\ lowest_idx = FirstIndex(input, LexMin(input))
        /\ Finished => points[1] = LexMin(input)

C10_Witness ==
    /\ Finished
    /\ YSeparated(input)
    /\ Len(input) >= 3
    /\ Count(input, LexMin(input)) >= 2
    /\ lowest_idx > 0
    /\ \E i, j \in DOMAIN input : input[i].y # input[j].y

(***************************************************************************)
(* Polar angle of p around base, measured from the positive x-axis,        *)
(* increasing counter-clockwise, in [0, 2*pi): first the half-plane        *)
(* (angles below pi, then the rest), then the turn from one to the other.  *)
(***************************************************************************)
UpperHalf(p, base) == p.y > base.y \/ (p.y = base.y /\ p.x > base.x)
Turn(a, b, base) == (a.x - base.x) * (b.y - base.y) - (a.y - base.y) * (b.x - base.x)
SameHalf(a, b, base) == UpperHalf(a, base) <=> UpperHalf(b, base)
AngleLess(a, b, base) ==
    \/ UpperHalf(a, base) /\ ~UpperHalf(b, base)
    \/ SameHalf(a, b, base) /\ Turn(a, b, base) > 0
AngleEqual(a, b, base) == SameHalf(a, b, base) /\ Turn(a, b, base) = 0

IsCompareCall == Len(args) = 3
IsDistanceCall == Len(args) = 2

(***************************************************************************)
(* C5: compare(a, b, base) is Greater iff compare(b, a, base) is Less, and *)
(* Equal iff compare(b, a, base) is Equal.                                 *)
(***************************************************************************)
C5_Antisymmetry ==
    (IsCompareCall /\ ret # None /\ retSwap # None) =>
        /\ ret = "Greater" <=> retSwap = "Less"
        /\ ret = "Equal" <=> retSwap = "Equal"

C5_Witness ==
    /\ IsCompareCall
    /\ ret = "Greater"
    /\ retSwap = "Less"
    /\ UpperHalf(args[1], args[3])
    /\ ~UpperHalf(args[2], args[3])

(***************************************************************************)
(* C6: for a and b different from base, compare(a, b, base) is Greater     *)
(* when the polar angle of a around base is greater than that of b, Less   *)
(* when it is smaller, Equal when the angles are equal.  (Stated in its    *)
(* weakest reading: a different angle may be reported Equal, as within the *)
(* tolerance, but never as the opposite order.)                            *)
(***************************************************************************)
C6_PolarAngleOrder ==
    (IsCompareCall /\ ret # None /\ args[1] # args[3] /\ args[2] # args[3]) =>
        /\ AngleLess(args[1], args[2], args[3]) => ret # "Greater"
        /\ AngleLess(args[2], args[1], args[3]) => ret # "Less"
        /\ AngleEqual(args[1], args[2], args[3]) => ret = "Equal"

C8_Distance ==
    (IsDistanceCall /\ pc = "returned") =>
        /\ ret = (args[1].x - args[2].x) * (args[1].x - args[2].x)
                 + (args[1].y - args[2].y) * (args[1].y - args[2].y)
        /\ retSelf = 0
        /\ ret = retSwap

C8_Witness ==
    /\ IsDistanceCall
    /\ pc = "returned"
    /\ args[1].x # args[2].x
    /\ args[1].y # args[2].y
    /\ args[1].y # 0
    /\ ret = 2 * Scale * Scale
====
